---- MODULE Spec2Model ----
(***************************************************************************)
(* The photo editor's generative pipeline: the client service functions    *)
(* (services/geminiService.ts), the serverless relay (api/generate.js) and *)
(* the external image model, which is an opaque capability whose answer is *)
(* an input of the model.                                                  *)
(*                                                                         *)
(* The relay is run twice side by side (runs "A" and "B") on the same      *)
(* request and the same model answer, with the two deployments differing   *)
(* only in the value of GEMINI_API_KEY, so that statements about what the  *)
(* credential can influence are state predicates.                          *)
(*                                                                         *)
(* Spec is the relay with the service functions and any other HTTP agent   *)
(* as its clients. SpecApp is the editor (App.tsx): its history, loading   *)
(* flag and error message, the handlers that call the service functions,   *)
(* and the endpoint as the service functions see it.                       *)
(***************************************************************************)
EXTENDS Integers, Sequences, FiniteSets, TLC

\* ------------------------------------------------------------------ bounds
\* Largest natural width / height of an uploaded photo.
MaxDim == 3
\* Largest side of a square image returned by the external model.
MaxSide == 4
\* Largest number of parts in the first candidate of a model response.
MaxParts == 2

\* ------------------------------------------------------- JavaScript values
\* undefined is the empty tuple, a defined value v is <<v>>.
Undef == <<>>
Some(v) == <<v>>
Get(m) == m[1]
Range(s) == {s[i] : i \in DOMAIN s}

\* A string built from fragments (a template literal) is the tuple of its
\* fragments.
Text(s) == <<s>>

\* -------------------------------------------------------------- rationals
\* JavaScript numbers of the canvas geometry, kept exact: <<num, den>> in
\* lowest terms with den > 0.
RECURSIVE GCD(_, _)
GCD(a, b) == IF b = 0 THEN a ELSE GCD(b, a % b)
Abs(n) == IF n < 0 THEN -n ELSE n
Rat(n, d) == LET g == GCD(Abs(n), d) IN <<n \div g, d \div g>>
RInt(n) == <<n, 1>>
RAdd(p, q) == Rat(p[1] * q[2] + q[1] * p[2], p[2] * q[2])
RMul(p, q) == Rat(p[1] * q[1], p[2] * q[2])
\* p / q for q > 0
RDiv(p, q) == Rat(p[1] * q[2], p[2] * q[1])
Max(a, b) == IF a >= b THEN a ELSE b

\* ------------------------------------------------------------ data URLs
\* The base64 payload of a square image stands for the image; the only thing
\* the client reads off it is its side (naturalWidth).
Payloads == {ToString(n) : n \in 1..MaxSide}
SideOf(p) == CHOOSE n \in 1..MaxSide : ToString(n) = p

\* `data:${mimeType};base64,${data}`
DataUrl(mimeType, data) == <<"data:", mimeType, ";base64,", data>>

ImageMimes == {"image/png", "image/jpeg"}

\* base64Data.replace(/^data:image\/[a-z]+;base64,/, ''): the prefix is
\* dropped when it matches, the string is left alone otherwise.
StripDataUrlPrefix(s) ==
    IF Len(s) = 4 /\ s[1] = "data:" /\ s[2] \in ImageMimes /\ s[3] = ";base64,"
    THEN <<s[4]>>
    ELSE s

base64ToPart(base64Data, mimeType) ==
    [inlineData |-> Some([mimeType |-> mimeType, data |-> StripDataUrlPrefix(base64Data)]),
     text |-> Undef]

TextPart(t) == [inlineData |-> Undef, text |-> Some(t)]

\* ------------------------------------------------------------- requests
Runs == {"A", "B"}
Keys == {"key-1", "key-2"}
\* process.env.GEMINI_API_KEY when the variable is not set
NoKey == ""

Methods == {"POST", "OPTIONS", "GET", "DELETE"}
Origins == {"https://tu-proyecto.vercel.app", "https://other.example"}
OwnDomain == "https://tu-proyecto.vercel.app"

SupportedTypes == {"edit", "filter", "adjustment", "placement"}
ClientTypes == SupportedTypes \cup {"grid", "expand"}

\* The fields the handler destructures from req.body, and the fields only
\* the grid and expand requests of the client carry.
HandlerParams == {"originalImage", "userPrompt", "hotspot", "filterPrompt",
                  "adjustmentPrompt", "objectImage"}
BodyFields == {"type"} \cup HandlerParams \cup {"images", "targetDimensions", "direction"}

Body(fields) == [f \in BodyFields |-> IF f \in DOMAIN fields THEN Some(fields[f]) ELSE Undef]

SampleImage == DataUrl("image/png", "1")
SampleValue(f) ==
    CASE f = "originalImage" -> SampleImage
      [] f = "objectImage" -> SampleImage
      [] f = "hotspot" -> [x |-> RInt(0), y |-> RInt(0)]
      [] OTHER -> Text(f)

\* Bodies an arbitrary HTTP agent sends: any type or none, and the handler's
\* parameters all present, all but one present, or all absent.
ParamSets == {HandlerParams} \cup {HandlerParams \ {p} : p \in HandlerParams} \cup {{}}
AgentBody(type, present) ==
    [f \in BodyFields |->
        IF f = "type" THEN type
        ELSE IF f \in present THEN Some(SampleValue(f)) ELSE Undef]
AgentBodies ==
    {AgentBody(t, ps) : t \in {Undef} \cup {Some(x) : x \in ClientTypes}, ps \in ParamSets}

\* req.body is undefined when the request carries no parsable body.
AgentRequests ==
    [method : Methods, body : {Undef} \cup {Some(b) : b \in AgentBodies}]

\* ------------------------------------------------------------ responses
CorsHeaders ==
    [AccessControlAllowOrigin |-> "*",
     AccessControlAllowMethods |-> "POST, OPTIONS",
     AccessControlAllowHeaders |-> "Content-Type"]

\* res.status(s).json(b) / res.status(s).end()
Json(status, headers, body) == [status |-> status, headers |-> headers, body |-> Some(body)]
End(status, headers) == [status |-> status, headers |-> headers, body |-> Undef]

MethodNotAllowed == Text("Método no permitido")
KeyNotConfigured == Text("API Key de Gemini no configurada")
InvalidType == Text("Tipo de operación no válido")
InternalError == Text("Error interno del servidor")

\* TypeError of reading a property of undefined
TypeErrorReading(prop) == <<"Cannot read properties of undefined (reading '", prop, "')">>

\* ------------------------------------------------- the external model
GeminiModel == "gemini-2.5-flash-image-preview"

ImagePart(p) == [inlineData |-> Some([mimeType |-> "image/png", data |-> p]), text |-> Undef]
ModelText == "Sorry, I cannot do that."

\* The parts of a first candidate: any arrangement of text and image parts,
\* the first image part carrying the payload p and every later one another
\* payload.
Shapes == UNION {[1..n -> {"text", "image"}] : n \in 0..MaxParts}
OtherPayload(p) == ToString((SideOf(p) % MaxSide) + 1)
PartsOf(shape, p) ==
    [i \in DOMAIN shape |->
        IF shape[i] = "text" THEN TextPart(ModelText)
        ELSE IF \A j \in 1..(i - 1) : shape[j] = "text" THEN ImagePart(p)
        ELSE ImagePart(OtherPayload(p))]
PartSeqs == {PartsOf(shape, p) : shape \in Shapes, p \in Payloads}
FinishReasons == {Undef, Some("STOP"), Some("SAFETY")}
FirstCandidates == [content : [parts : PartSeqs], finishReason : FinishReasons]
OtherCandidate == [content |-> [parts |-> <<ImagePart("1")>>], finishReason |-> Some("STOP")]
CandidateLists ==
    {Undef} \cup {Some(<<c>>) : c \in FirstCandidates}
            \cup {Some(<<c, OtherCandidate>>) : c \in FirstCandidates}
PromptFeedbacks ==
    {Undef, Some([blockReason |-> Some("SAFETY"), blockReasonMessage |-> Undef])}

\* GenerateContentResponse objects the model can answer with
Responses == [promptFeedback : PromptFeedbacks, candidates : CandidateLists]
ExternalErrors == {Text("fetch failed")}

\* What awaiting ai.models.generateContent yields: a rejection or a response.
Outcomes ==
    {[threw |-> Some(m), response |-> Undef] : m \in ExternalErrors}
    \cup {[threw |-> Undef, response |-> Some(r)] : r \in Responses}

\* response.candidates?.[0]
FirstCandidate(response) ==
    IF response.candidates = Undef \/ Len(Get(response.candidates)) = 0
    THEN Undef
    ELSE Some(Get(response.candidates)[1])

\* response.candidates?.[0]?.content?.parts
FirstParts(response) ==
    IF FirstCandidate(response) = Undef THEN <<>>
    ELSE Get(FirstCandidate(response)).content.parts

\* response.text: the text parts of the first candidate, undefined when there
\* is none.
ResponseText(response) ==
    LET parts == FirstParts(response)
        texts == {i \in DOMAIN parts : parts[i].text # Undef}
    IN IF texts = {} THEN Undef
       ELSE Some(Get(parts[CHOOSE i \in texts : \A j \in texts : i <= j].text))

Return(v) == [ok |-> TRUE, value |-> v, message |-> <<>>]
Throw(m) == [ok |-> FALSE, value |-> <<>>, message |-> m]

\* A search for the image that reads finishReason before the parts.
ImageOrThrowFinishReasonFirst(response, context) ==
    LET parts == FirstParts(response)
        images == {i \in DOMAIN parts : parts[i].inlineData # Undef}
        cand == FirstCandidate(response)
        finishReason == IF cand = Undef THEN Undef ELSE Get(cand).finishReason
    IN IF finishReason # Undef /\ finishReason # Some("STOP")
       THEN Throw(<<"Image generation for ", context,
                    " stopped unexpectedly. Reason: ", Get(finishReason)>>)
       ELSE IF images # {}
       THEN LET first == CHOOSE i \in images : \A j \in images : i <= j
                inline == Get(parts[first].inlineData)
            IN Return(DataUrl(inline.mimeType, inline.data))
       ELSE Throw(<<"The AI model did not return an image for the ", context, ". ",
                    "This can happen due to safety filters or if the request is too complex.",
                    "">>)

\* handleApiResponse once the prompt is known not to be blocked
ImageOrThrow(response, context) ==
    LET parts == FirstParts(response)
        images == {i \in DOMAIN parts : parts[i].inlineData # Undef}
    IN IF images # {}
       THEN LET first == CHOOSE i \in images : \A j \in images : i <= j
                inline == Get(parts[first].inlineData)
            IN Return(DataUrl(inline.mimeType, inline.data))
       ELSE
       LET cand == FirstCandidate(response)
           finishReason == IF cand = Undef THEN Undef ELSE Get(cand).finishReason
       IN IF finishReason # Undef /\ finishReason # Some("STOP")
          THEN Throw(<<"Image generation for ", context,
                       " stopped unexpectedly. Reason: ", Get(finishReason)>>)
          ELSE LET textFeedback == ResponseText(response)
               IN Throw(<<"The AI model did not return an image for the ", context, ". ",
                          IF textFeedback # Undef
                          THEN "The model responded with text: "
                          ELSE "This can happen due to safety filters or if the request is too complex.",
                          IF textFeedback # Undef THEN Get(textFeedback) ELSE "">>)

\* A handleApiResponse that looks for the image before the promptFeedback.
handleApiResponseImageFirst(response, context) ==
    LET image == ImageOrThrow(response, context)
    IN IF image.ok THEN image
       ELSE IF response.promptFeedback # Undef /\ Get(response.promptFeedback).blockReason # Undef
       THEN Throw(<<"Request was blocked. Reason: ",
                    Get(Get(response.promptFeedback).blockReason), ". ", "">>)
       ELSE image

\* A handleApiResponse without the promptFeedback check.
handleApiResponseIgnoresBlock(response, context) == ImageOrThrow(response, context)

handleApiResponse(response, context) ==
    IF response.promptFeedback # Undef /\ Get(response.promptFeedback).blockReason # Undef
    THEN LET fb == Get(response.promptFeedback)
         IN Throw(<<"Request was blocked. Reason: ", Get(fb.blockReason), ". ",
                    IF fb.blockReasonMessage = Undef THEN "" ELSE Get(fb.blockReasonMessage)>>)
    ELSE ImageOrThrow(response, context)

\* ----------------------------------------------------- the relay's handler
\* `${v}` of a request parameter
Interpolate(v) == IF v = Undef THEN Text("undefined") ELSE Get(v)

\* ai.models.generateContent({model, contents: {parts}, config}) as issued by
\* a GoogleGenAI client constructed with apiKey
GenerateContent(apiKey, context, parts) ==
    [kind |-> "call", message |-> <<>>,
     call |-> Some([by |-> "relay", apiKey |-> apiKey, model |-> GeminiModel,
                    context |-> context, parts |-> parts])]
Rejected(m) == [kind |-> "throw", message |-> m, call |-> Undef]

handleEditRequest(apiKey, originalImage, userPrompt, hotspot) ==
    IF originalImage = Undef THEN Rejected(TypeErrorReading("replace"))
    ELSE GenerateContent(apiKey, "edit",
            <<base64ToPart(Get(originalImage), "image/png"),
              TextPart([template |-> "edit", request |-> Interpolate(userPrompt),
                        hotspot |-> Undef])>>)

handleFilterRequest(apiKey, originalImage, filterPrompt) ==
    IF originalImage = Undef THEN Rejected(TypeErrorReading("replace"))
    ELSE GenerateContent(apiKey, "filter",
            <<base64ToPart(Get(originalImage), "image/png"),
              TextPart([template |-> "filter", request |-> Interpolate(filterPrompt),
                        hotspot |-> Undef])>>)

handleAdjustmentRequest(apiKey, originalImage, adjustmentPrompt) ==
    IF originalImage = Undef THEN Rejected(TypeErrorReading("replace"))
    ELSE GenerateContent(apiKey, "adjustment",
            <<base64ToPart(Get(originalImage), "image/png"),
              TextPart([template |-> "adjustment", request |-> Interpolate(adjustmentPrompt),
                        hotspot |-> Undef])>>)

handlePlacementRequest(apiKey, originalImage, objectImage, userPrompt, hotspot) ==
    IF originalImage = Undef THEN Rejected(TypeErrorReading("replace"))
    ELSE IF objectImage = Undef THEN Rejected(TypeErrorReading("replace"))
    ELSE IF hotspot = Undef THEN Rejected(TypeErrorReading("x"))
    ELSE GenerateContent(apiKey, "placement",
            <<base64ToPart(Get(originalImage), "image/png"),
              base64ToPart(Get(objectImage), "image/png"),
              TextPart([template |-> "placement", request |-> Interpolate(userPrompt),
                        hotspot |-> hotspot])>>)

Responded(response) == [pc |-> "responded", res |-> Some(response), call |-> Undef]
Awaiting(call) == [pc |-> "awaitModel", res |-> Undef, call |-> call]
\* an exception that leaves the handler: the handler itself sends nothing
Crashed == [pc |-> "crashed", res |-> Undef, call |-> Undef]

ServerError(headers, message) ==
    Json(500, headers, [error |-> InternalError, details |-> message])

\* A handler without the preflight branch.
IsPreflightNever(req) == FALSE

\* req.method === 'OPTIONS'
IsPreflight(req) == req.method = "OPTIONS"
\* A handler without the method check.
IsPostUnchecked(req) == TRUE

\* !(req.method !== 'POST')
IsPost(req) == req.method = "POST"
\* !(!process.env.GEMINI_API_KEY)
KeyConfigured(apiKey) == apiKey # NoKey

\* The handler from its entry to its first await or its response.
handler(req, apiKey) ==
    LET headers == CorsHeaders
    IN
    IF IsPreflight(req) THEN Responded(End(200, headers))
    ELSE IF ~IsPost(req)
    THEN Responded(Json(405, headers, [error |-> MethodNotAllowed]))
    ELSE IF req.body = Undef THEN Crashed
    ELSE IF ~KeyConfigured(apiKey)
    THEN Responded(Json(500, headers, [error |-> KeyNotConfigured]))
    ELSE
    LET b == Get(req.body)
        started ==
            CASE b.type = Some("edit") ->
                    handleEditRequest(apiKey, b.originalImage, b.userPrompt, b.hotspot)
              [] b.type = Some("filter") ->
                    handleFilterRequest(apiKey, b.originalImage, b.filterPrompt)
              [] b.type = Some("adjustment") ->
                    handleAdjustmentRequest(apiKey, b.originalImage, b.adjustmentPrompt)
              [] b.type = Some("placement") ->
                    handlePlacementRequest(apiKey, b.originalImage, b.objectImage,
                                           b.userPrompt, b.hotspot)
              [] OTHER -> [kind |-> "invalid", message |-> <<>>, call |-> Undef]
    IN CASE started.kind = "call" -> Awaiting(started.call)
         [] started.kind = "throw" -> Responded(ServerError(headers, started.message))
         [] OTHER -> Responded(Json(400, headers, [error |-> InvalidType]))

\* A catch block that reports the failed call together with its client
\* configuration.
handlerResumeReportsConfig(call, outcome) ==
    IF outcome.threw # Undef
    THEN ServerError(CorsHeaders, Get(outcome.threw) \o <<call.apiKey>>)
    ELSE LET r == handleApiResponse(Get(outcome.response), call.context)
         IN IF r.ok
            THEN Json(200, CorsHeaders, [success |-> TRUE, data |-> r.value])
            ELSE ServerError(CorsHeaders, r.message \o <<call.apiKey>>)

\* The handler from the settlement of generateContent to its response.
handlerResume(call, outcome) ==
    IF outcome.threw # Undef
    THEN ServerError(CorsHeaders, Get(outcome.threw))
    ELSE LET r == handleApiResponse(Get(outcome.response), call.context)
         IN IF r.ok
            THEN Json(200, CorsHeaders, [success |-> TRUE, data |-> r.value])
            ELSE ServerError(CorsHeaders, r.message)

\* ------------------------------------------------ client canvas geometry
Dims == 1..MaxDim

\* A padding that draws the photo in the top left corner of the square.
padImageToSquareTopLeft(naturalWidth, naturalHeight) ==
    LET size == Max(naturalWidth, naturalHeight)
    IN [size |-> size,
        x |-> RInt(0),
        y |-> RInt(0),
        width |-> RInt(naturalWidth),
        height |-> RInt(naturalHeight),
        originalWidth |-> naturalWidth,
        originalHeight |-> naturalHeight]

\* The square canvas and the rectangle at which the photo is drawn on it.
padImageToSquare(naturalWidth, naturalHeight) ==
    LET size == Max(naturalWidth, naturalHeight)
    IN [size |-> size,
        x |-> RDiv(RInt(size - naturalWidth), RInt(2)),
        y |-> RDiv(RInt(size - naturalHeight), RInt(2)),
        width |-> RInt(naturalWidth),
        height |-> RInt(naturalHeight),
        originalWidth |-> naturalWidth,
        originalHeight |-> naturalHeight]

\* The source rectangle read from the returned square and the canvas it is
\* drawn on.
\* Crop ratios that take the whole padding of an axis as the offset.
CropRatiosFullPadding(originalWidth, originalHeight) ==
    LET originalSize == Max(originalWidth, originalHeight)
    IN [ratioX |-> RDiv(RInt(originalSize - originalWidth), RInt(originalSize)),
        ratioY |-> RDiv(RInt(originalSize - originalHeight), RInt(originalSize)),
        ratioW |-> RDiv(RInt(originalWidth), RInt(originalSize)),
        ratioH |-> RDiv(RInt(originalHeight), RInt(originalSize))]

\* The photo's rectangle as fractions of the padded square's side.
CropRatios(originalWidth, originalHeight) ==
    LET originalSize == Max(originalWidth, originalHeight)
    IN [ratioX |-> RDiv(RDiv(RInt(originalSize - originalWidth), RInt(2)), RInt(originalSize)),
        ratioY |-> RDiv(RDiv(RInt(originalSize - originalHeight), RInt(2)), RInt(originalSize)),
        ratioW |-> RDiv(RInt(originalWidth), RInt(originalSize)),
        ratioH |-> RDiv(RInt(originalHeight), RInt(originalSize))]

\* A crop whose canvas takes the size of the source rectangle.
cropToSourceSize(newSize, originalWidth, originalHeight) ==
    LET ratio == CropRatios(originalWidth, originalHeight)
        sourceWidth == RMul(RInt(newSize), ratio.ratioW)
        sourceHeight == RMul(RInt(newSize), ratio.ratioH)
    IN [sourceX |-> RMul(RInt(newSize), ratio.ratioX),
        sourceY |-> RMul(RInt(newSize), ratio.ratioY),
        sourceWidth |-> sourceWidth,
        sourceHeight |-> sourceHeight,
        canvasWidth |-> sourceWidth[1] \div sourceWidth[2],
        canvasHeight |-> sourceHeight[1] \div sourceHeight[2]]

cropSquareToOriginal(newSize, originalWidth, originalHeight) ==
    LET ratio == CropRatios(originalWidth, originalHeight)
    IN [sourceX |-> RMul(RInt(newSize), ratio.ratioX),
        sourceY |-> RMul(RInt(newSize), ratio.ratioY),
        sourceWidth |-> RMul(RInt(newSize), ratio.ratioW),
        sourceHeight |-> RMul(RInt(newSize), ratio.ratioH),
        canvasWidth |-> originalWidth,
        canvasHeight |-> originalHeight]

\* hotspot moved into the padded square
PaddedHotspot(hotspot, originalWidth, originalHeight) ==
    LET size == Max(originalWidth, originalHeight)
    IN [x |-> RAdd(hotspot.x, RDiv(RInt(size - originalWidth), RInt(2))),
        y |-> RAdd(hotspot.y, RDiv(RInt(size - originalHeight), RInt(2)))]

\* fileToBase64 of a PNG whose side is `size`
FileToBase64(size) == DataUrl("image/png", ToString(size))

Endpoint == "/api/generate"

DefaultError(kind) ==
    CASE kind = "edit" -> Text("Error en la generación de imagen")
      [] kind = "filter" -> Text("Error en la generación de filtro")
      [] kind = "adjustment" -> Text("Error en la generación de ajuste")
      [] kind = "placement" -> Text("Error en la colocación de objeto")
      [] kind = "grid" -> Text("Error en la generación de grid")
      [] OTHER -> Text("Error en la expansión de imagen")

\* The handler invocations that can be suspended at an await at the same
\* time.
Invocations == {"first", "second"}

\* ------------------------------------------------------------------ state
VARIABLES
    key,      \* GEMINI_API_KEY of each run's deployment
    req,      \* the HTTP request being served, or Undef
    sender,   \* who sent it: "client" or "agent"
    spc,      \* each run's position in the handler
    res,      \* each run's response, or Undef
    calls,    \* each run's calls to the external API for this request
    answer,   \* what generateContent settled with, or Undef
    cpc,      \* position of the client's service function
    op,       \* the service function invoked and its photo, or Undef
    fetches,  \* the HTTP requests this invocation issued
    direct,   \* the calls this invocation made to the external API itself
    result,   \* what the service function resolved or rejected with, or Undef
    history,       \* App: the images of the editing session
    historyIndex,  \* App: index of the current image in history (0-based), -1 for none
    isLoading,     \* App: the loading flag
    error,         \* App: the error message shown, or Undef for null
    pending        \* App: what each invocation suspended at an await holds, or Undef

vars == <<key, req, sender, spc, res, calls, answer, cpc, op, fetches, direct, result,
          history, historyIndex, isLoading, error, pending>>
server == <<spc, res, calls, answer>>
client == <<cpc, op, fetches, direct, result>>
app == <<history, historyIndex, isLoading, error, pending>>

Init ==
    /\ key \in {[r \in Runs |-> NoKey], [r \in Runs |-> IF r = "A" THEN "key-1" ELSE "key-2"]}
    /\ req = Undef
    /\ sender = "agent"
    /\ spc = [r \in Runs |-> "idle"]
    /\ res = [r \in Runs |-> Undef]
    /\ calls = [r \in Runs |-> <<>>]
    /\ answer = Undef
    /\ cpc = "idle"
    /\ op = Undef
    /\ fetches = <<>>
    /\ direct = <<>>
    /\ result = Undef
    /\ history = <<>>
    /\ historyIndex = -1
    /\ isLoading = FALSE
    /\ error = Undef
    /\ pending = [i \in Invocations |-> Undef]

Idle == req = Undef /\ cpc = "idle"

\* ----------------------------------------------------------------- client
Hotspots(w, h) == {[x |-> RInt(w - 1), y |-> RInt(0)]}

Rejects(message) == [ok |-> FALSE, error |-> message, image |-> Undef]
Resolves(image) == [ok |-> TRUE, error |-> <<>>, image |-> Some(image)]

\* A service function that could not prepare its request: it rejects before
\* any fetch.
PrepareFails(kind, w, h) ==
    /\ cpc' = "threw"
    /\ op' = Some([kind |-> kind, naturalWidth |-> w, naturalHeight |-> h,
                   originalWidth |-> 0, originalHeight |-> 0])
    /\ fetches' = <<>>
    /\ direct' = <<>>
    /\ result' = Some(Rejects(Text("Could not read file")))
    /\ UNCHANGED <<key, req, sender, server>>

\* A fetch that is sent a second time.
FetchTwice(kind, w, h, ow, oh, body) ==
    /\ cpc' = "fetching"
    /\ op' = Some([kind |-> kind, naturalWidth |-> w, naturalHeight |-> h,
                   originalWidth |-> ow, originalHeight |-> oh])
    /\ fetches' = <<[url |-> Endpoint, method |-> "POST"], [url |-> Endpoint, method |-> "POST"]>>
    /\ direct' = <<>>
    /\ result' = Undef
    /\ req' = Some([method |-> "POST", body |-> Some(body)])
    /\ sender' = "client"
    /\ UNCHANGED <<key, server>>

\* await fetch('/api/generate', {method: 'POST', body: JSON.stringify(body)})
Fetch(kind, w, h, ow, oh, body) ==
    /\ cpc' = "fetching"
    /\ op' = Some([kind |-> kind, naturalWidth |-> w, naturalHeight |-> h,
                   originalWidth |-> ow, originalHeight |-> oh])
    /\ fetches' = <<[url |-> Endpoint, method |-> "POST"]>>
    /\ direct' = <<>>
    /\ result' = Undef
    /\ req' = Some([method |-> "POST", body |-> Some(body)])
    /\ sender' = "client"
    /\ UNCHANGED <<key, server>>

generateEditedImage(w, h, hotspot, readable) ==
    /\ Idle
    /\ IF ~readable THEN PrepareFails("edit", w, h)
       ELSE LET pad == padImageToSquare(w, h)
                paddedHotspot == PaddedHotspot(hotspot, pad.originalWidth, pad.originalHeight)
            IN Fetch("edit", w, h, pad.originalWidth, pad.originalHeight,
                     Body([type |-> "edit",
                           originalImage |-> FileToBase64(pad.size),
                           userPrompt |-> Text("userPrompt"),
                           hotspot |-> paddedHotspot]))

generateFilteredImage(w, h, readable) ==
    /\ Idle
    /\ IF ~readable THEN PrepareFails("filter", w, h)
       ELSE LET pad == padImageToSquare(w, h)
            IN Fetch("filter", w, h, pad.originalWidth, pad.originalHeight,
                     Body([type |-> "filter",
                           originalImage |-> FileToBase64(pad.size),
                           filterPrompt |-> Text("filterPrompt")]))

generateAdjustedImage(w, h, readable) ==
    /\ Idle
    /\ IF ~readable THEN PrepareFails("adjustment", w, h)
       ELSE LET pad == padImageToSquare(w, h)
            IN Fetch("adjustment", w, h, pad.originalWidth, pad.originalHeight,
                     Body([type |-> "adjustment",
                           originalImage |-> FileToBase64(pad.size),
                           adjustmentPrompt |-> Text("adjustmentPrompt")]))

generatePlacedImage(w, h, hotspot, readable) ==
    /\ Idle
    /\ IF ~readable THEN PrepareFails("placement", w, h)
       ELSE LET pad == padImageToSquare(w, h)
                paddedHotspot == PaddedHotspot(hotspot, pad.originalWidth, pad.originalHeight)
            IN Fetch("placement", w, h, pad.originalWidth, pad.originalHeight,
                     Body([type |-> "placement",
                           originalImage |-> FileToBase64(pad.size),
                           objectImage |-> SampleImage,
                           userPrompt |-> Text("userPrompt"),
                           hotspot |-> paddedHotspot]))

\* targetDimensions is the natural size of the base image when one is given;
\* JSON.stringify drops it when it is undefined.
generateFromGrid(w, h, withTarget, readable) ==
    /\ Idle
    /\ IF ~readable THEN PrepareFails("grid", w, h)
       ELSE Fetch("grid", w, h, 0, 0,
                  IF withTarget
                  THEN Body([type |-> "grid",
                             images |-> <<SampleImage>>,
                             userPrompt |-> Text("userPrompt"),
                             targetDimensions |-> [width |-> w, height |-> h]])
                  ELSE Body([type |-> "grid",
                             images |-> <<SampleImage>>,
                             userPrompt |-> Text("userPrompt")]))

generateExpandedImage(w, h, direction, readable) ==
    /\ Idle
    /\ IF ~readable THEN PrepareFails("expand", w, h)
       ELSE Fetch("expand", w, h, 0, 0,
                  Body([type |-> "expand",
                        originalImage |-> FileToBase64(Max(w, h)),
                        direction |-> direction,
                        userPrompt |-> Text("userPrompt")]))

\* The service function after `await fetch`: the error branch, or the crop
\* (edit, filter, adjustment, placement) or the plain return (grid, expand).
FetchResolves ==
    /\ cpc = "fetching"
    /\ res["A"] # Undef
    /\ LET response == Get(res["A"])
           o == Get(op)
           ok == response.status >= 200 /\ response.status <= 299
       IN IF ~ok
          THEN /\ cpc' = "threw"
               /\ result' = Some(Rejects(
                      IF response.body # Undef /\ "error" \in DOMAIN Get(response.body)
                      THEN Get(response.body).error
                      ELSE DefaultError(o.kind)))
          ELSE LET squareImageUrl == Get(response.body).data
                   newSize == SideOf(squareImageUrl[4])
               IN /\ cpc' = "returned"
                  /\ result' = Some(Resolves(
                         IF o.kind \in SupportedTypes
                         THEN LET crop == cropSquareToOriginal(newSize, o.originalWidth,
                                                               o.originalHeight)
                              IN [width |-> crop.canvasWidth, height |-> crop.canvasHeight,
                                  source |-> Some([x |-> crop.sourceX, y |-> crop.sourceY,
                                                   width |-> crop.sourceWidth,
                                                   height |-> crop.sourceHeight]),
                                  from |-> newSize]
                         ELSE [width |-> newSize, height |-> newSize, source |-> Undef,
                               from |-> newSize]))
    /\ UNCHANGED <<key, req, sender, server, op, fetches, direct>>

\* ------------------------------------------------------------------ agent
\* Any other HTTP client of the endpoint.
AgentRequest(r) ==
    /\ Idle
    /\ req' = Some(r)
    /\ sender' = "agent"
    /\ UNCHANGED <<key, server, client>>

\* ------------------------------------------------------------------ relay
\* The platform invokes the handler with the request; each run goes to its
\* response or to its await of the external call.
HandlerStart ==
    /\ req # Undef
    /\ \A r \in Runs : spc[r] = "idle"
    /\ LET h == [r \in Runs |-> handler(Get(req), key[r])]
       IN /\ spc' = [r \in Runs |-> h[r].pc]
          /\ res' = [r \in Runs |-> h[r].res]
          /\ calls' = [r \in Runs |-> h[r].call]
    /\ UNCHANGED <<key, req, sender, answer, client>>

\* The external call settles, with the same outcome in every run awaiting it.
GenerateContentSettles(outcome) ==
    /\ \E r \in Runs : spc[r] = "awaitModel"
    /\ answer' = Some(outcome)
    /\ spc' = [r \in Runs |-> IF spc[r] = "awaitModel" THEN "responded" ELSE spc[r]]
    /\ res' = [r \in Runs |->
                  IF spc[r] = "awaitModel"
                  THEN Some(handlerResume(Get(calls[r]), outcome))
                  ELSE res[r]]
    /\ UNCHANGED <<key, req, sender, calls, client>>

\* The exchange is over and the next one may start.
Settle ==
    /\ \/ /\ req # Undef
          /\ \A r \in Runs : spc[r] \in {"responded", "crashed"}
          /\ sender = "client" => cpc \in {"returned", "threw"}
       \/ req = Undef /\ cpc = "threw"
    /\ req' = Undef
    /\ sender' = "agent"
    /\ spc' = [r \in Runs |-> "idle"]
    /\ res' = [r \in Runs |-> Undef]
    /\ calls' = [r \in Runs |-> <<>>]
    /\ answer' = Undef
    /\ cpc' = "idle"
    /\ op' = Undef
    /\ fetches' = <<>>
    /\ direct' = <<>>
    /\ result' = Undef
    /\ UNCHANGED key

Next ==
    \/ \E w \in Dims, h \in Dims, readable \in BOOLEAN :
          \/ \E hotspot \in Hotspots(w, h) :
                generateEditedImage(w, h, hotspot, readable) /\ UNCHANGED app
          \/ generateFilteredImage(w, h, readable) /\ UNCHANGED app
          \/ generateAdjustedImage(w, h, readable) /\ UNCHANGED app
          \/ \E hotspot \in Hotspots(w, h) :
                generatePlacedImage(w, h, hotspot, readable) /\ UNCHANGED app
          \/ \E withTarget \in BOOLEAN :
                generateFromGrid(w, h, withTarget, readable) /\ UNCHANGED app
          \/ \E direction \in {"left", "right", "top", "bottom"} :
                generateExpandedImage(w, h, direction, readable) /\ UNCHANGED app
    \/ FetchResolves /\ UNCHANGED app
    \/ \E r \in AgentRequests : AgentRequest(r) /\ UNCHANGED app
    \/ HandlerStart /\ UNCHANGED app
    \/ \E outcome \in Outcomes : GenerateContentSettles(outcome) /\ UNCHANGED app
    \/ Settle /\ UNCHANGED app

Spec == Init /\ [][Next]_vars

\* -------------------------------------------------------------------- App
\* Longest history explored.
MaxHistory == 2

exchange == <<key, req, sender, server, client>>

\* A File is the image it holds.
UploadedPhotos == {[width |-> 1, height |-> MaxDim]}
\* createPlaceholderImage: the PNG of a 1024 x 768 canvas
PlaceholderImage == [width |-> 1024, height |-> 768]

\* history[historyIndex] ?? null
ImageAt(files, index) ==
    IF index >= 0 /\ index < Len(files) THEN Some(files[index + 1]) ELSE Undef
currentImage == ImageAt(history, historyIndex)
canUndo == historyIndex > 0
canRedo == historyIndex < Len(history) - 1

\* What App renders: the error screen, else the start screen, else the editor.
StartScreenShown == error = Undef /\ currentImage = Undef
EditorShown == error = Undef /\ currentImage # Undef

\* A handler suspended at its await, with the history and historyIndex of the
\* render whose callbacks it holds. The callbacks read the captured history up
\* to historyIndex only, and that much of it is kept.
Suspended(kind) ==
    [kind |-> kind, phase |-> "started",
     history |-> SubSeq(history, 1, historyIndex + 1), historyIndex |-> historyIndex]
\* The invocation the next handler call becomes, when one is left.
NextInvocation == IF pending["first"] = Undef THEN "first" ELSE "second"
Suspend(kind) ==
    /\ pending[NextInvocation] = Undef
    /\ pending' = [pending EXCEPT ![NextInvocation] = Some(Suspended(kind))]
Resume(i) == pending' = [pending EXCEPT ![i] = Undef]

handleImageUpload(file) ==
    /\ error' = Undef
    /\ history' = <<file>>
    /\ historyIndex' = 0

\* StartScreen's onFileSelect
handleFileSelect(file) ==
    /\ StartScreenShown
    /\ handleImageUpload(file)
    /\ UNCHANGED <<isLoading, pending, exchange>>

\* StartScreen's onSelectGridMode, up to `await createPlaceholderImage()`
handleStartGridMode ==
    /\ StartScreenShown
    /\ isLoading' = TRUE
    /\ Suspend("placeholder")
    /\ UNCHANGED <<history, historyIndex, error, exchange>>

\* handleStartGridMode after the await: try, catch and finally
createPlaceholderImageSettles(ok) ==
    \E i \in Invocations :
        /\ pending[i] # Undef
        /\ Get(pending[i]).kind = "placeholder"
        /\ IF ok THEN handleImageUpload(PlaceholderImage)
           ELSE /\ error' = Some(Text("Canvas to Blob conversion failed for placeholder"))
                /\ UNCHANGED <<history, historyIndex>>
        /\ isLoading' = FALSE
        /\ Resume(i)
        /\ UNCHANGED exchange

\* A generative handler from the click on its control to its await. The
\* control is rendered with the editor and is disabled while isLoading or
\* while its form is incomplete, which covers the handler's own early returns.
StartOperation(kind) ==
    /\ EditorShown
    /\ ~isLoading
    /\ historyIndex + 1 < MaxHistory
    /\ isLoading' = TRUE
    /\ error' = Undef
    /\ Suspend(kind)
    /\ UNCHANGED <<history, historyIndex, exchange>>

\* handleApplyFilter and handleApplyAdjustment have the same shape; their
\* controls are in FilterPanel and AdjustmentPanel and they are left out.
handleGenerate == StartOperation("edit")
handlePlaceObject == StartOperation("placement")
handleGenerateGrid == StartOperation("grid")
handleExpandImage == StartOperation("expand")

\* The service function a suspended handler called runs up to its fetch. The
\* exchanges with the endpoint are taken one after the other.
InvokeService ==
    \E i \in Invocations :
        /\ pending[i] # Undef
        /\ Get(pending[i]).phase = "started"
        /\ Get(pending[i]).kind \in ClientTypes
        /\ LET captured == Get(pending[i])
               image == Get(ImageAt(captured.history, captured.historyIndex))
               w == image.width
               h == image.height
               kind == captured.kind
           IN \E readable \in BOOLEAN :
                 \/ /\ kind = "edit"
                    /\ \E hotspot \in Hotspots(w, h) : generateEditedImage(w, h, hotspot, readable)
                 \/ /\ kind = "placement"
                    /\ \E hotspot \in Hotspots(w, h) : generatePlacedImage(w, h, hotspot, readable)
                 \/ kind = "grid" /\ generateFromGrid(w, h, TRUE, readable)
                 \/ /\ kind = "expand"
                    /\ \E direction \in {"left", "right"} :
                          generateExpandedImage(w, h, direction, readable)
        /\ pending' = [pending EXCEPT ![i] = Some([Get(pending[i]) EXCEPT !.phase = "sent"])]
        /\ UNCHANGED <<history, historyIndex, isLoading, error>>

\* The answers the handler sends, as the service functions see them.
EndpointResponses ==
    {Json(200, CorsHeaders, [success |-> TRUE, data |-> DataUrl("image/png", p)]) :
        p \in {ToString(MaxSide)}}
    \cup {Json(400, CorsHeaders, [error |-> InvalidType]),
          ServerError(CorsHeaders, Text("fetch failed"))}

EndpointResponds(response) ==
    /\ cpc = "fetching"
    /\ req # Undef
    /\ \A r \in Runs : spc[r] = "idle"
    /\ spc' = [r \in Runs |-> "responded"]
    /\ res' = [r \in Runs |-> Some(response)]
    /\ UNCHANGED <<key, req, sender, calls, answer, client, app>>

dataURLtoFile(image) == [width |-> image.width, height |-> image.height]

\* addImageToHistory of the render the handler was created in
addImageToHistory(captured, newImageFile) ==
    LET newHistory ==
            Append(SubSeq(captured.history, 1, captured.historyIndex + 1), newImageFile)
    IN /\ history' = newHistory
       /\ historyIndex' = Len(newHistory) - 1

FailurePrefix(kind) ==
    CASE kind = "edit" -> "Failed to generate the image. "
      [] kind = "placement" -> "Failed to place the object. "
      [] kind = "grid" -> "Failed to generate from grid. "
      [] OTHER -> "Failed to expand the image. "

\* A catch block that also takes the current image off the history.
CatchRollsBack(kind, message) ==
    /\ error' = Some(<<FailurePrefix(kind)>> \o message)
    /\ history' = SubSeq(history, 1, Len(history) - 1)
    /\ historyIndex' = Len(history) - 2

\* catch (err) { setError(`Failed to ... ${errorMessage}`) }
Catch(kind, message) ==
    /\ error' = Some(<<FailurePrefix(kind)>> \o message)
    /\ UNCHANGED <<history, historyIndex>>

\* A generative handler after its await: the rest of try, or catch, then
\* finally.
OperationSettles ==
    /\ cpc \in {"returned", "threw"}
    /\ \E i \in Invocations :
          /\ pending[i] # Undef
          /\ Get(pending[i]).phase = "sent"
          /\ IF Get(result).ok
             THEN /\ addImageToHistory(Get(pending[i]), dataURLtoFile(Get(Get(result).image)))
                  /\ UNCHANGED error
             ELSE Catch(Get(pending[i]).kind, Get(result).error)
          /\ isLoading' = FALSE
          /\ Resume(i)
    /\ Settle

handleUndo ==
    /\ EditorShown
    /\ canUndo
    /\ historyIndex' = historyIndex - 1
    /\ UNCHANGED <<history, isLoading, error, pending, exchange>>

handleRedo ==
    /\ EditorShown
    /\ canRedo
    /\ historyIndex' = historyIndex + 1
    /\ UNCHANGED <<history, isLoading, error, pending, exchange>>

handleReset ==
    /\ EditorShown
    /\ canUndo
    /\ Len(history) > 0
    /\ historyIndex' = 0
    /\ error' = Undef
    /\ UNCHANGED <<history, isLoading, pending, exchange>>

handleUploadNew ==
    /\ EditorShown
    /\ history' = <<>>
    /\ historyIndex' = -1
    /\ error' = Undef
    /\ UNCHANGED <<isLoading, pending, exchange>>

\* The error screen's Try Again button
TryAgain ==
    /\ error # Undef
    /\ error' = Undef
    /\ UNCHANGED <<history, historyIndex, isLoading, pending, exchange>>

InitApp == Init /\ \A r \in Runs : KeyConfigured(key[r])

NextApp ==
    \/ \E file \in UploadedPhotos : handleFileSelect(file)
    \/ handleStartGridMode
    \/ \E ok \in BOOLEAN : createPlaceholderImageSettles(ok)
    \/ handleGenerate
    \/ handlePlaceObject
    \/ handleGenerateGrid
    \/ handleExpandImage
    \/ InvokeService
    \/ \E response \in EndpointResponses : EndpointResponds(response)
    \/ FetchResolves /\ UNCHANGED app
    \/ OperationSettles
    \/ handleUndo
    \/ handleRedo
    \/ handleReset
    \/ handleUploadNew
    \/ TryAgain

SpecApp == InitApp /\ [][NextApp]_vars

\* ============================================================ properties
Method == Get(req).method
HasBody == req # Undef /\ Get(req).body # Undef
ReqBody == Get(Get(req).body)
Handled(r) == req # Undef /\ spc[r] # "idle"
Called(r) == calls[r] # Undef

Blocked(outcome) ==
    /\ outcome.response # Undef
    /\ Get(outcome.response).promptFeedback # Undef
    /\ Get(Get(outcome.response).promptFeedback).blockReason # Undef

\* The data URLs of the image parts of the first candidate of an unblocked
\* model response.
ModelImages(outcome) ==
    IF outcome.response = Undef \/ Blocked(outcome) THEN {}
    ELSE LET parts == FirstParts(Get(outcome.response))
         IN {DataUrl(Get(parts[i].inlineData).mimeType, Get(parts[i].inlineData).data) :
                i \in {j \in DOMAIN parts : parts[j].inlineData # Undef}}

Success(r, image) ==
    /\ res[r] # Undef
    /\ Get(res[r]).status = 200
    /\ Get(res[r]).body = Some([success |-> TRUE, data |-> image])

Failure(r, status, text) ==
    /\ res[r] # Undef
    /\ Get(res[r]).status = status
    /\ Get(res[r]).body # Undef
    /\ "error" \in DOMAIN Get(Get(res[r]).body)
    /\ Get(Get(res[r]).body).error = text

\* Every string a response carries in its headers and its body.
ResponseStrings(response) ==
    {response.headers[h] : h \in DOMAIN response.headers}
    \cup (IF response.body = Undef THEN {}
          ELSE LET json == Get(response.body)
               IN UNION {IF f = "success" THEN {} ELSE Range(json[f]) : f \in DOMAIN json})

\* C1 (as stated): a POST of any of the six client request types, with a
\* configured credential, is forwarded to the external API and, when the model
\* returns an image, is answered 200 with that image.
C1_AllSixTypesDelegated ==
    \A r \in Runs :
        (sender = "client" /\ Handled(r) /\ KeyConfigured(key[r])) =>
            /\ Called(r)
            /\ (answer # Undef /\ ModelImages(Get(answer)) # {}) =>
                   \E image \in ModelImages(Get(answer)) : Success(r, image)

\* C2: no response of the handler carries the value of GEMINI_API_KEY in a
\* header or in its body, and two runs that differ only in the value of a
\* configured key answer the same request and the same model answer with the
\* same response.
C2_CredentialStaysServerSide ==
    /\ \A r \in Runs :
          (KeyConfigured(key[r]) /\ res[r] # Undef) =>
              key[r] \notin ResponseStrings(Get(res[r]))
    /\ (\A r \in Runs : KeyConfigured(key[r])) =>
          /\ res["A"] = res["B"]
          /\ spc["A"] = spc["B"]

C2_Witness ==
    /\ key["A"] \in Keys /\ key["B"] \in Keys /\ key["A"] # key["B"]
    /\ answer # Undef
    /\ res["A"] # Undef /\ Get(res["A"]).status = 500
    /\ res["B"] # Undef
    /\ Get(calls["A"]).apiKey = key["A"]

\* C3: a POST with a supported type and a configured credential is answered
\* either 200 {success: true, data} with data the data URL of an image part of
\* the (unblocked) model response, or a non-200 error; never 200 when the
\* response was blocked or had no image part; and 500 when the external call
\* threw.
C3_EditedImageOrFail ==
    \A r \in Runs :
        (/\ HasBody /\ Method = "POST"
         /\ ReqBody.type \in {Some(t) : t \in SupportedTypes}
         /\ KeyConfigured(key[r])
         /\ res[r] # Undef) =>
            /\ \/ /\ answer # Undef
                  /\ \E image \in ModelImages(Get(answer)) : Success(r, image)
               \/ /\ Get(res[r]).status # 200
                  /\ Get(res[r]).body # Undef
                  /\ "error" \in DOMAIN Get(Get(res[r]).body)
            /\ (answer # Undef /\ (Blocked(Get(answer)) \/ ModelImages(Get(answer)) = {})) =>
                   Get(res[r]).status # 200
            /\ (answer # Undef /\ Get(answer).threw # Undef) => Get(res[r]).status = 500

C3_Witness ==
    /\ HasBody /\ Method = "POST"
    /\ ReqBody.type = Some("placement")
    /\ KeyConfigured(key["A"])
    /\ answer # Undef
    /\ Len(FirstParts(Get(Get(answer).response))) = 2
    /\ \E image \in ModelImages(Get(answer)) : Success("A", image)

\* The invocation of a cropping service function has returned its image.
Cropped ==
    /\ cpc = "returned"
    /\ Get(op).kind \in SupportedTypes
CroppedImage == Get(Get(result).image)

C5_CroppedToOriginalDimensions ==
    Cropped =>
        /\ CroppedImage.width = Get(op).naturalWidth
        /\ CroppedImage.height = Get(op).naturalHeight

C5_Witness ==
    /\ Cropped
    /\ Get(op).naturalWidth # Get(op).naturalHeight
    /\ CroppedImage.from # Max(Get(op).naturalWidth, Get(op).naturalHeight)

\* Everything the client sent went to the endpoint as a POST, and only the
\* relay called the external API.
ThroughEndpointOnly ==
    /\ \A i \in DOMAIN fetches : fetches[i] = [url |-> Endpoint, method |-> "POST"]
    /\ direct = <<>>
    /\ \A r \in Runs : Called(r) => Get(calls[r]).by = "relay"

\* C6 (as stated): every invocation of a generative operation issues exactly
\* one POST to /api/generate, and the client never calls the external API.
C6_ExactlyOnePostPerInvocation ==
    cpc \in {"returned", "threw"} =>
        /\ Len(fetches) = 1
        /\ ThroughEndpointOnly

\* C6 (amended): an invocation issues at most one POST to /api/generate: none
\* when preparing the request fails, exactly one otherwise; and the client
\* never calls the external API.
C6_AtMostOnePostPerInvocation ==
    cpc # "idle" =>
        /\ Len(fetches) <= 1
        /\ (cpc = "threw" /\ req = Undef) => Len(fetches) = 0
        /\ (cpc \in {"fetching", "returned"} \/ req # Undef) => Len(fetches) = 1
        /\ ThroughEndpointOnly

C6_Witness ==
    /\ cpc = "returned"
    /\ Get(op).kind = "edit"
    /\ Len(fetches) = 1
    /\ Called("A")

\* C7: only a POST request can cause a call to the external API, and a request
\* whose method is neither POST nor OPTIONS is answered 405 'Método no
\* permitido'.
C7_OnlyPostAccepted ==
    \A r \in Runs :
        /\ Called(r) => Method = "POST"
        /\ (Handled(r) /\ Method \notin {"POST", "OPTIONS"}) =>
               /\ Failure(r, 405, MethodNotAllowed)
               /\ ~Called(r)

C7_Witness ==
    /\ Handled("A")
    /\ Method = "DELETE"
    /\ KeyConfigured(key["A"])
    /\ HasBody
    /\ ReqBody.type = Some("edit")
    /\ \A p \in HandlerParams : ReqBody[p] # Undef
    /\ Failure("A", 405, MethodNotAllowed)

\* C8 (as stated): without GEMINI_API_KEY every POST request is answered 500
\* 'API Key de Gemini no configurada' and the external API is not called,
\* whatever the type or body.
C8_NoKeyAlwaysAnswered500 ==
    \A r \in Runs :
        (Handled(r) /\ Method = "POST" /\ ~KeyConfigured(key[r])) =>
            /\ Failure(r, 500, KeyNotConfigured)
            /\ ~Called(r)

\* The parameters each supported type needs.
RequiredParams(type) ==
    CASE type = "edit" -> {"originalImage", "userPrompt", "hotspot"}
      [] type = "placement" -> {"originalImage", "userPrompt", "hotspot", "objectImage"}
      [] type = "filter" -> {"originalImage", "filterPrompt"}
      [] type = "adjustment" -> {"originalImage", "adjustmentPrompt"}
      [] OTHER -> {}

\* C9 (as stated): a POST of a supported type that lacks a parameter the type
\* needs is rejected and never results in a call to the external API.
C9_MissingParameterRejected ==
    \A r \in Runs :
        (/\ Handled(r) /\ Method = "POST" /\ HasBody
         /\ ReqBody.type # Undef
         /\ \E p \in RequiredParams(Get(ReqBody.type)) : ReqBody[p] = Undef) =>
            /\ ~Called(r)
            /\ res[r] # Undef => Get(res[r]).status # 200

\* Access-Control-Allow-Origin authorises an origin when it names it or is the
\* wildcard.
Authorises(allowOrigin, origin) == allowOrigin = "*" \/ allowOrigin = origin

\* C10 (as stated): the Access-Control-Allow-Origin header of a response never
\* authorises an origin other than the deployment's own domain.
C10_CorsOwnDomainOnly ==
    \A r \in Runs :
        res[r] # Undef =>
            \A origin \in Origins :
                Authorises(Get(res[r]).headers.AccessControlAllowOrigin, origin) =>
                    origin = OwnDomain

\* The error texts the handler writes itself.
FixedErrorTexts == {MethodNotAllowed, KeyNotConfigured, InvalidType, InternalError}

\* C11 (as stated): the body of every failing response holds only a fixed
\* error text, never the message of an exception raised in the handler or
\* returned by the external API.
C11_ErrorBodyOnlyFixedText ==
    \A r \in Runs :
        (res[r] # Undef /\ Get(res[r]).status # 200) =>
            /\ Get(res[r]).body # Undef
            /\ DOMAIN Get(Get(res[r]).body) = {"error"}
            /\ Get(Get(res[r]).body).error \in FixedErrorTexts

\* C12 (as stated): with a configured credential, a POST whose type is edit,
\* filter, adjustment or placement reaches the external API through the
\* handler of that type, and a POST with any other type or none is answered
\* 400 'Tipo de operación no válido' without a call to the external API.
C12_ExactlyFourTypes ==
    \A r \in Runs :
        (Handled(r) /\ Method = "POST" /\ KeyConfigured(key[r])) =>
            IF HasBody /\ ReqBody.type \in {Some(t) : t \in SupportedTypes}
            THEN /\ Called(r)
                 /\ Get(calls[r]).context = Get(ReqBody.type)
            ELSE /\ Failure(r, 400, InvalidType)
                 /\ ~Called(r)

\* The handler has awaited the external call and answered.
Answered(r) == answer # Undef /\ Called(r) /\ spc[r] = "responded"
Details(r) == Get(Get(res[r]).body).details

\* C14: when promptFeedback.blockReason of the model response is set, the
\* request fails with 'Request was blocked. Reason: <blockReason>...' and no
\* image is returned, even when the first candidate holds an inline image.
C14_BlockCheckedFirst ==
    \A r \in Runs :
        (Answered(r) /\ Blocked(Get(answer))) =>
            LET fb == Get(Get(Get(answer).response).promptFeedback)
            IN /\ Get(res[r]).status = 500
               /\ DOMAIN Get(Get(res[r]).body) = {"error", "details"}
               /\ Details(r)[1] = "Request was blocked. Reason: "
               /\ Details(r)[2] = Get(fb.blockReason)

C14_Witness ==
    /\ Answered("A")
    /\ Blocked(Get(answer))
    /\ Len(FirstParts(Get(Get(answer).response))) > 0
    /\ FirstParts(Get(Get(answer).response))[1].inlineData # Undef
    /\ Get(res["A"]).status = 500
    /\ Details("A")[1] = "Request was blocked. Reason: "

\* C15: when the model response is not blocked and the first candidate has a
\* part with inline data, the answer is 'data:<mimeType>;base64,<data>' of the
\* first such part whatever the finishReason; otherwise the request fails
\* with the finishReason message when finishReason is set and not STOP, and
\* with the no-image message else; the parts of other candidates are not used.
C15_FirstInlinePartOfFirstCandidate ==
    \A r \in Runs :
        (Answered(r) /\ Get(answer).response # Undef /\ ~Blocked(Get(answer))) =>
            LET response == Get(Get(answer).response)
                candidates == response.candidates
                parts == IF candidates = Undef THEN <<>>
                         ELSE Get(candidates)[1].content.parts
                finishReason == IF candidates = Undef THEN Undef
                                ELSE Get(candidates)[1].finishReason
                images == {i \in DOMAIN parts : parts[i].inlineData # Undef}
            IN IF images # {}
               THEN \E i \in images :
                       /\ \A j \in images : i <= j
                       /\ Success(r, <<"data:", Get(parts[i].inlineData).mimeType,
                                       ";base64,", Get(parts[i].inlineData).data>>)
               ELSE /\ Get(res[r]).status = 500
                    /\ IF finishReason \notin {Undef, Some("STOP")}
                       THEN /\ Details(r)[1] = "Image generation for "
                            /\ Details(r)[4] = Get(finishReason)
                       ELSE Details(r)[1] = "The AI model did not return an image for the "

C15_Witness ==
    /\ Answered("A")
    /\ ~Blocked(Get(answer))
    /\ Get(answer).response # Undef
    /\ LET response == Get(Get(answer).response)
           parts == FirstParts(response)
       IN /\ response.candidates # Undef
          /\ Len(Get(response.candidates)) = 2
          /\ Get(response.candidates)[1].finishReason = Some("SAFETY")
          /\ Len(parts) = 2
          /\ parts[1].inlineData = Undef
          /\ parts[2].inlineData # Undef
          /\ Get(parts[2].inlineData).data # Get(OtherCandidate.content.parts[1].inlineData).data
          /\ Success("A", <<"data:", "image/png", ";base64,", Get(parts[2].inlineData).data>>)

CorsHeaderNames ==
    {"AccessControlAllowOrigin", "AccessControlAllowMethods", "AccessControlAllowHeaders"}

\* C16: every OPTIONS request is answered 200 with an empty body and without
\* a call to the external API, with or without a configured key, and every
\* response of the handler carries the three Access-Control-Allow-* headers.
C16_PreflightAndCorsHeaders ==
    \A r \in Runs :
        /\ (Handled(r) /\ Method = "OPTIONS") =>
              /\ res[r] # Undef
              /\ Get(res[r]).status = 200
              /\ Get(res[r]).body = Undef
              /\ ~Called(r)
        /\ res[r] # Undef => CorsHeaderNames \subseteq DOMAIN Get(res[r]).headers

C16_Witness ==
    /\ Handled("A")
    /\ Method = "OPTIONS"
    /\ ~KeyConfigured(key["A"])
    /\ HasBody
    /\ ReqBody.type = Some("edit")
    /\ Get(res["A"]).status = 200
    /\ Get(res["A"]).body = Undef
    /\ CorsHeaderNames \subseteq DOMAIN Get(res["A"]).headers

\* C17 (as stated): whichever way a run of the handler ends, it has sent one
\* response, whose status is 200, 400, 405 or 500.
C17_ExactlyOneResponse ==
    \A r \in Runs :
        spc[r] \in {"responded", "crashed"} =>
            /\ res[r] # Undef
            /\ Get(res[r]).status \in {200, 400, 405, 500}

\* C19: padImageToSquare draws the photo unscaled on a square of side
\* s = max(w, h) at ((s - w) / 2, (s - h) / 2): the padding on opposite sides
\* is equal, the longer axis and a square photo get none, and originalWidth
\* and originalHeight are the photo's natural size.
C19_PaddedSquareCentred ==
    (cpc = "fetching" /\ Get(op).kind \in SupportedTypes) =>
        LET w == Get(op).naturalWidth
            h == Get(op).naturalHeight
            s == IF w > h THEN w ELSE h
            pad == padImageToSquare(w, h)
        IN /\ pad.size = s
           /\ ReqBody.originalImage = Some(<<"data:", "image/png", ";base64,", ToString(s)>>)
           /\ pad.width = <<w, 1>> /\ pad.height = <<h, 1>>
           /\ pad.x = Rat(s - w, 2) /\ pad.y = Rat(s - h, 2)
           /\ RAdd(RAdd(pad.x, pad.width), pad.x) = <<s, 1>>
           /\ RAdd(RAdd(pad.y, pad.height), pad.y) = <<s, 1>>
           /\ w >= h => pad.x = <<0, 1>>
           /\ h >= w => pad.y = <<0, 1>>
           /\ pad.originalWidth = w /\ pad.originalHeight = h
           /\ Get(op).originalWidth = w /\ Get(op).originalHeight = h

C19_Witness ==
    /\ cpc = "fetching"
    /\ Get(op).kind = "edit"
    /\ Get(op).naturalWidth = 1
    /\ Get(op).naturalHeight = 2
    /\ padImageToSquare(1, 2).x = <<1, 2>>
    /\ Get(op).originalHeight = 2

\* The service function has returned the image of a grid request that
\* carried targetDimensions.
GridReturned ==
    /\ cpc = "returned"
    /\ Get(op).kind = "grid"
    /\ ReqBody.targetDimensions # Undef

\* C13 (as stated): when targetDimensions is given, the image generateFromGrid
\* returns has exactly targetDimensions.width x targetDimensions.height.
C13_GridCroppedToTargetDimensions ==
    GridReturned =>
        /\ Get(Get(result).image).width = Get(ReqBody.targetDimensions).width
        /\ Get(Get(result).image).height = Get(ReqBody.targetDimensions).height

\* The endpoint's answer to the request of the service function is not OK.
AnsweredNotOk ==
    /\ req # Undef
    /\ res["A"] # Undef
    /\ ~(Get(res["A"]).status >= 200 /\ Get(res["A"]).status <= 299)

\* C18: when the endpoint answers with a non-OK status, the service function
\* rejects with the answer's error field as message and without an image, and
\* the step of the App handler that follows sets the error message to its
\* 'Failed to ...' text with that message, leaves history and historyIndex as
\* they are and sets isLoading to false.
C18_FailureLeavesSessionUnchanged ==
    [][(AnsweredNotOk /\ cpc \in {"returned", "threw"} /\ cpc' = "idle") =>
          /\ cpc = "threw"
          /\ Get(result).error = Get(Get(res["A"]).body).error
          /\ Get(result).image = Undef
          /\ error' # Undef
          /\ Get(error')[1] \in {"Failed to generate the image. ",
                                 "Failed to place the object. ",
                                 "Failed to generate from grid. ",
                                 "Failed to expand the image. "}
          /\ SubSeq(Get(error'), 2, Len(Get(error'))) = Get(Get(res["A"]).body).error
          /\ history' = history
          /\ historyIndex' = historyIndex
          /\ isLoading' = FALSE]_vars

C18_Witness ==
    /\ error = Some(<<"Failed to generate the image. ", "Error interno del servidor">>)
    /\ ~isLoading
    /\ Len(history) = 2
    /\ historyIndex = 0
    /\ \A i \in Invocations : pending[i] = Undef

\* The generative handlers that have been started and have not settled.
InFlight ==
    {i \in Invocations : pending[i] # Undef /\ Get(pending[i]).kind \in ClientTypes}

\* C20 (as stated): at most one generative request is in flight at any time.
C20_AtMostOneRequestInFlight == Cardinality(InFlight) <= 1

====
